---- MODULE Spec2Model ----
(***************************************************************************)
(* gruv_socks: length-prefixed message framing over a TCP stream.          *)
(*                                                                         *)
(* Two Socket objects are modelled.  "w" is the client-side object: it is  *)
(* constructed without a socket, connects, and writes.  "r" is the object  *)
(* on the other end of the stream (the one the accept loop wraps around    *)
(* the accepted socket): it reads.  Bytes handed to send() are appended to *)
(* the stream; recv() takes them off its front, possibly fewer than asked. *)
(* write() and read() are broken at their send()/recv() calls, because the *)
(* other end runs between two such calls.                                  *)
(*                                                                         *)
(* Spec is the whole program.  SpecConn is the life cycle alone (connect,  *)
(* disconnect, and the calls that move no bytes); SpecFrame is the traffic *)
(* on an established connection, with its failures and disconnects.       *)
(* SpecHist is the traffic on a healthy connection (nothing raises, nobody *)
(* disconnects) and records, beside the program's actions, which payloads  *)
(* were written and what each read returned; the history variables stay at *)
(* their initial values under the other specifications.                    *)
(* SpecCalls adds to SpecFrame the connect() calls that fail or are turned *)
(* away; SpecLive adds to it a reader that is scheduled again and again.   *)
(*                                                                         *)
(* SpecServ is one ServerBase object: start() and stop(), the threads in   *)
(* __listen that start() spawns, and the callback threads they start.      *)
(* SpecServFair is SpecServ with every accept loop scheduled again and     *)
(* again.                                                                  *)
(***************************************************************************)
EXTENDS Integers, Sequences, FiniteSets, TLC

\* ---------------------------------------------------------------- bounds
MaxLen == 2          \* longest payload written
MaxWrites == 1       \* write() calls in a run
HistWrites == 2      \* write() calls in a run under SpecHist
MaxReads == 3        \* read() calls under SpecHist
MaxSockets == 3      \* raw sockets created in a run (socket() and accept())
MaxSpins == 1        \* recv() calls that return b'' at end of stream, per read
MaxStarts == 2       \* listening sockets created by start() in a run
MaxConns == 2        \* connections accepted in a run
MaxLogged == 1       \* errors of the accept loop that are counted

\* ------------------------------------------------------- program constants
SOCK_ERROR == <<1>>
SOCK_TIMEOUT == <<0>>

None == 0
Objs == {"w", "r"}

VARIABLES
    sock,            \* sock[o]: the raw socket object o owns (self.__sock), None or a handle
    created,         \* raw sockets created so far; handles are 1..created
    nShutdown,       \* calls of shutdown() so far
    nClose,          \* calls of close() so far
    link,            \* <<hw, hr>>: the connected pair of handles, or <<>>
    stream,          \* bytes sent by hw and not yet received by hr
    eof,             \* hw was shut down or closed: recv on hr returns b'' once stream is empty
    rgone,           \* hr was shut down or closed: send on hw fails
    wpc,             \* position of w's write(): "idle" or "loop"
    wdata,           \* write(): data after line 127 (prefix + payload)
    wsent,           \* write(): sent
    wlength,         \* write(): length
    rpc,             \* position of r's read(): "idle", "body" (the loop test of
                     \* line 86 passed) or "spin" (see ReadSpin)
    fragments,       \* read(): fragments (the buffers received after the prefix)
    data_length,     \* read(): data_length
    message_length,  \* read(): message_length
    spins,           \* read(): empty buffers received in this call
    taken,           \* read(): the bytes this call took off the stream after the prefix
    cret,            \* what the last connect() returned: <<>> before any, else <<value>>
    wret,            \* what the last write() returned: <<>> before any, else <<value>>
    rret,            \* what the last read() returned: <<>> before any, else <<ok, data>>
    nwrites,         \* write() calls begun so far
    raised,          \* the methods of Socket out of which an exception has propagated
    \* history of the connection
    wlog,            \* payloads of the write() calls that returned True, in order
    rlog,            \* <<ok, data, seen>> of the read() calls that returned, in order;
                     \* seen: how many write() calls had returned True when it began
    rseen            \* seen, for the read() call in progress

VARIABLES
    \* ServerBase
    listener,        \* self.__listener: None or the listening socket, one of 1..nstarts
    running,         \* self.running
    nstarts,         \* listening sockets created by start() so far
    lsock,           \* lsock[l]: "none", "unbound", "listening" or "closed"
    loop,            \* loop[l]: where the thread in __listen that the start() which
                     \* created socket l spawned stands: "none" (never spawned),
                     \* "while" (line 194), "select" (196), "accept" (197),
                     \* "dispatch" (199-201), "done" (it left the loop)
    held,            \* held[l]: the connection loop l accepted and has not dispatched, or 0
    mainloop,        \* the loop that runs in the main thread (blocking start), or 0
    naccepted,       \* connections accepted so far; they are 1..naccepted
    handlers,        \* the connections whose callback thread is running
    invoked,         \* invoked[c]: how many callback threads were started for c
    cpc,             \* the thread calling stop(): "idle" or "sleep" (line 248)
    sret,            \* how the last start() ended: <<>>, <<"returned">> or <<"raised">>
    phase,           \* "Listening" from a start() that succeeded to the end of the
                     \* stop() that follows it, "Idle" otherwise
    logged           \* errors printed on line 208, counted up to MaxLogged

svars == <<listener, running, nstarts, lsock, loop, held, mainloop, naccepted,
           handlers, invoked, cpc, sret, phase, logged>>

netvars == <<link, stream, eof, rgone>>
hvars == <<sock, created, nShutdown, nClose>>
wvars == <<wpc, wdata, wsent, wlength, nwrites>>
rvars == <<rpc, fragments, data_length, message_length, spins, taken>>
hist == <<wlog, rlog, rseen>>
vars == <<sock, created, nShutdown, nClose, link, stream, eof, rgone,
          wpc, wdata, wsent, wlength,
          rpc, fragments, data_length, message_length, spins, taken,
          cret, wret, rret, nwrites, raised, wlog, rlog, rseen,
          listener, running, nstarts, lsock, loop, held, mainloop, naccepted,
          handlers, invoked, cpc, sret, phase, logged>>

\* ------------------------------------------------------------ pure helpers
Min(a, b) == IF a < b THEN a ELSE b
Take(s, k) == SubSeq(s, 1, k)
Drop(s, k) == SubSeq(s, k + 1, Len(s))

\* b''.join(fragments)
RECURSIVE Join(_)
Join(fs) == IF fs = <<>> THEN <<>> ELSE Head(fs) \o Join(Tail(fs))

\* pack(">I", n): four bytes, most significant first; struct.error when n does
\* not fit 32 bits (n >= 2^32, written with 16-bit halves)
CanPackHi(hi) == hi < 65536
CanPack(n) == CanPackHi(n \div 65536)
Pack(n) == << (n \div 16777216) % 256, (n \div 65536) % 256, (n \div 256) % 256, n % 256 >>

\* unpack(">I", b)[0]: struct.error unless b has exactly four bytes; the
\* value is the big-endian number the bytes spell
\* an unpack that accepts a short buffer
CanUnpack_Lenient(b) == Len(b) >= 1
CanUnpack(b) == Len(b) = 4
RECURSIVE BigEndian(_)
BigEndian(b) == IF b = <<>> THEN 0 ELSE BigEndian(Take(b, Len(b) - 1)) * 256 + b[Len(b)]
Unpack(b) == BigEndian(b)

\* the payloads written: b'', b'\x01', b'\x01\x02', ...
Payloads == { [i \in 1..n |-> i] : n \in 0..MaxLen }

\* s is an initial part of t
IsPrefix(s, t) == Len(s) <= Len(t) /\ s = SubSeq(t, 1, Len(s))

\* --------------------------------------------------------------- exceptions
\* the except clauses around the body of each method; struct_error and
\* socket_error derive from Exception
ConnectExcept == {"Exception"}                                  \* line 56
ReadExcept == {"struct_error", "socket_error", "Exception"}     \* lines 92, 97, 102
\* a write() that handles socket errors only
WriteExcept_SocketOnly == {"socket_error"}
WriteExcept == {"struct_error", "socket_error", "Exception"}    \* lines 134, 140, 146
DisconnectExcept == {"Exception"}                               \* lines 160, 163

\* an exception of class e raised in the try body is handled by the clauses
Caught(clauses, e) == e \in clauses \/ "Exception" \in clauses

\* what raised becomes when method op raises e (or nothing, e = "none")
\* inside its try body
AfterRaise(op, clauses, e) ==
    IF e = "none" \/ Caught(clauses, e) THEN raised ELSE raised \cup {op}

\* ServerBase.__init__, lines 185-187, and no call made yet
ServerInit ==
    /\ listener = None
    /\ running = FALSE
    /\ nstarts = 0
    /\ lsock = [l \in 1..MaxStarts |-> "none"]
    /\ loop = [l \in 1..MaxStarts |-> "none"]
    /\ held = [l \in 1..MaxStarts |-> 0]
    /\ mainloop = 0
    /\ naccepted = 0
    /\ handlers = {}
    /\ invoked = [c \in 1..MaxConns |-> 0]
    /\ cpc = "idle"
    /\ sret = <<>>
    /\ phase = "Idle"
    /\ logged = 0

Init ==
    /\ ServerInit
    /\ sock = [o \in Objs |-> None]
    /\ created = 0
    /\ nShutdown = 0
    /\ nClose = 0
    /\ link = <<>>
    /\ stream = <<>>
    /\ eof = FALSE
    /\ rgone = FALSE
    /\ wpc = "idle"
    /\ wdata = <<>>
    /\ wsent = 0
    /\ wlength = 0
    /\ rpc = "idle"
    /\ fragments = <<>>
    /\ data_length = 0
    /\ message_length = 0
    /\ spins = 0
    /\ taken = <<>>
    /\ cret = <<>>
    /\ wret = <<>>
    /\ rret = <<>>
    /\ nwrites = 0
    /\ raised = {}
    /\ wlog = <<>>
    /\ rlog = <<>>
    /\ rseen = 0

\* ------------------------------------------------------------------ connect
\* line 46: the guard of connect()
\* a connect() without the guard of line 46
AlreadyConnected_Never(o) == FALSE
AlreadyConnected(o) == sock[o] # None

\* lines 51-59: what self.__sock holds when connect() returns False after
\* socket() succeeded but settimeout()/connect() raised: line 51 has already
\* assigned the new socket and the except clause does not clear it
SockAfterFailedConnect(h) == h

\* the accepting side can take a connection: its previous socket was released
Reachable == sock["r"] = None /\ rpc = "idle"

\* connect(host, port) on w.  out is what the platform does:
\*   "nosock"  socket() itself raises
\*   "refused" socket() succeeds, connect() raises (refused, timeout, resolution)
\*   "ok"      the peer accepts; the accepted socket is wrapped as r (line 199)
Connect(out) ==
    /\ wpc = "idle"
    /\ LET e == IF AlreadyConnected("w") \/ out = "ok" THEN "none" ELSE "socket_error"
       IN  /\ raised' = AfterRaise("connect", ConnectExcept, e)
           /\ cret' = IF raised' = raised
                      THEN << ~AlreadyConnected("w") /\ out = "ok" >> ELSE cret
    /\ IF AlreadyConnected("w") \/ out = "nosock"
       THEN UNCHANGED <<hvars, netvars>>
       ELSE IF out = "refused"
       THEN /\ created < MaxSockets
            /\ created' = created + 1
            /\ sock' = [sock EXCEPT !["w"] = SockAfterFailedConnect(created + 1)]
            /\ UNCHANGED <<nShutdown, nClose, netvars>>
       ELSE /\ Reachable
            /\ created + 2 <= MaxSockets
            /\ created' = created + 2
            /\ sock' = [w |-> created + 1, r |-> created + 2]
            /\ link' = <<created + 1, created + 2>>
            /\ stream' = <<>>
            /\ eof' = FALSE
            /\ rgone' = FALSE
            /\ UNCHANGED <<nShutdown, nClose>>
    /\ UNCHANGED <<wvars, rvars, wret, rret>>

\* --------------------------------------------------------------- disconnect
\* line 164: the innermost finally clears the handle whatever shutdown() and
\* close() did
\* a disconnect() that forgets the socket only when close() succeeded
SockAfterDisconnect_OnSuccess(h, shutOk, closeOk) == IF closeOk THEN None ELSE h
SockAfterDisconnect(h, shutOk, closeOk) == None

\* disconnect() on o; shutOk / closeOk: whether shutdown() / close() succeed
Disconnect(o, shutOk, closeOk) ==
    /\ IF o = "w" THEN wpc = "idle" ELSE rpc = "idle"
    /\ IF sock[o] = None
       THEN UNCHANGED <<hvars, netvars, raised>>
       ELSE LET h == sock[o]
                told == shutOk \/ closeOk     \* the peer learns of it
                e == IF shutOk /\ closeOk THEN "none" ELSE "socket_error"
            IN  /\ raised' = AfterRaise("disconnect", DisconnectExcept, e)
                /\ nShutdown' = nShutdown + 1
                /\ nClose' = nClose + 1
                /\ sock' = [sock EXCEPT ![o] = SockAfterDisconnect(h, shutOk, closeOk)]
                /\ eof' = (eof \/ (told /\ link # <<>> /\ h = link[1]))
                /\ rgone' = (rgone \/ (told /\ link # <<>> /\ h = link[2]))
                /\ UNCHANGED <<created, link, stream>>
    /\ UNCHANGED <<wvars, rvars, cret, wret, rret>>

\* -------------------------------------------------------------------- write
\* line 129: the loop test of write()
MoreToSend(sent, length) == sent < length

\* write() returns v
WriteReturn(v) ==
    /\ wpc' = "idle"
    /\ wret' = <<v>>
    /\ UNCHANGED raised

\* the try body of write() raises e: False is returned if a clause handles it
\* (lines 134-150)
WriteRaise(e) ==
    /\ wpc' = "idle"
    /\ raised' = AfterRaise("write", WriteExcept, e)
    /\ wret' = IF raised' = raised THEN <<FALSE>> ELSE wret

\* write(p) up to its first send(): lines 116-129
WriteCall(p) ==
    /\ wpc = "idle"
    /\ nwrites' = nwrites + 1
    /\ IF sock["w"] = None
       THEN /\ WriteReturn(FALSE)
            /\ UNCHANGED <<wdata, wsent, wlength>>
       ELSE /\ wsent' = 0
            /\ wlength' = Len(p)
            /\ IF ~CanPack(Len(p))
               THEN /\ wdata' = p
                    /\ WriteRaise("struct_error")
               ELSE /\ wdata' = Pack(Len(p)) \o p
                    /\ IF MoreToSend(0, Len(p))
                       THEN /\ wpc' = "loop"
                            /\ UNCHANGED <<wret, raised>>
                       ELSE WriteReturn(TRUE)
    /\ UNCHANGED <<hvars, netvars, rvars, cret, rret>>

\* write(p) for a p of hi * 65536 bytes, too long for the model to hold: line
\* 127 raises struct.error; the locals are gone when the call returns
WriteTooLong(hi) ==
    /\ wpc = "idle"
    /\ ~CanPackHi(hi)
    /\ nwrites' = nwrites + 1
    /\ IF sock["w"] = None THEN WriteReturn(FALSE) ELSE WriteRaise("struct_error")
    /\ UNCHANGED <<wdata, wsent, wlength>>
    /\ UNCHANGED <<hvars, netvars, rvars, cret, rret>>

\* the socket of w is one end of a live connection
CanSend == link # <<>> /\ sock["w"] = link[1] /\ ~rgone

\* line 130: one send(data[sent:]) that accepts k bytes, then the loop test
WriteSend(k) ==
    /\ wpc = "loop"
    /\ CanSend
    /\ k \in 1..(Len(wdata) - wsent)
    /\ stream' = stream \o SubSeq(wdata, wsent + 1, wsent + k)
    /\ wsent' = wsent + k
    /\ IF MoreToSend(wsent + k, wlength)
       THEN UNCHANGED <<wpc, wret, raised>>
       ELSE WriteReturn(TRUE)
    /\ UNCHANGED <<hvars, link, eof, rgone, wdata, wlength, nwrites, rvars, cret, rret>>

\* line 130 raises (lines 140-144): write() returns False
WriteSendFail ==
    /\ wpc = "loop"
    /\ WriteRaise("socket_error")
    /\ UNCHANGED <<hvars, netvars, wdata, wsent, wlength, nwrites, rvars, cret, rret>>

\* --------------------------------------------------------------------- read
\* line 77: the data returned when the object owns no socket
\* a read() that reports a missing socket as an error
NotConnectedData_Error == SOCK_ERROR
NotConnectedData == SOCK_TIMEOUT

\* line 82: the data returned when select() reports nothing readable
\* a read() that reports an expired wait as an error
TimedOutData_Error == SOCK_ERROR
TimedOutData == <<0>>

\* line 81: select() reports the socket readable when bytes wait or the
\* stream has ended
Readable == stream # <<>> \/ eof

\* the buffers one recv(n) may return: up to n of the waiting bytes, at least
\* one; b'' once the stream has ended and is drained; none (it blocks) otherwise
RecvBufs(n) ==
    IF stream # <<>> THEN { Take(stream, k) : k \in 1..Min(n, Len(stream)) }
    ELSE IF eof THEN { <<>> }
    ELSE {}

\* what select() and recv() raise: socket.error, or something else
RecvErrors == {"socket_error", "Exception"}

\* line 86: the loop test of read()
\* a read() that calls recv() for the payload once
MoreToRead_Once(got, wanted) == got = 0 /\ got < wanted
MoreToRead(got, wanted) == got < wanted

\* line 88: the number of bytes asked of recv() in the loop
BodyRequest(wanted, got) == wanted - got

\* read() returns (ok, data)
ReadReturn(ok, data) ==
    /\ rpc' = "idle"
    /\ rret' = <<ok, data>>
    /\ UNCHANGED raised

\* the try body of read() raises e: (False, SOCK_ERROR) is returned if a
\* clause handles it (lines 92-105)
ReadRaise(e) ==
    /\ rpc' = "idle"
    /\ raised' = AfterRaise("read", ReadExcept, e)
    /\ rret' = IF raised' = raised THEN <<FALSE, SOCK_ERROR>> ELSE rret

\* lines 70-72: the locals of a new call
ReadLocals ==
    /\ fragments' = <<>>
    /\ data_length' = 0
    /\ spins' = 0
    /\ taken' = <<>>

\* lines 75-77: read() on an object that owns no socket
ReadNoSock ==
    /\ rpc = "idle"
    /\ sock["r"] = None
    /\ ReadLocals
    /\ message_length' = 0
    /\ ReadReturn(FALSE, NotConnectedData)
    /\ UNCHANGED <<hvars, netvars, wvars, cret, wret>>

\* lines 81-82: nothing became readable within the window
ReadTimeout ==
    /\ rpc = "idle"
    /\ sock["r"] # None
    /\ ~Readable
    /\ ReadLocals
    /\ message_length' = 0
    /\ ReadReturn(FALSE, TimedOutData)
    /\ UNCHANGED <<hvars, netvars, wvars, cret, wret>>

\* lines 81-86: readable; recv(4) returns buf; unpack; the first loop test
ReadHeader(buf) ==
    /\ rpc = "idle"
    /\ sock["r"] # None
    /\ Readable
    /\ buf \in RecvBufs(4)
    /\ ReadLocals
    /\ stream' = Drop(stream, Len(buf))
    /\ IF ~CanUnpack(buf)
       THEN /\ message_length' = 0
            /\ ReadRaise("struct_error")
       ELSE /\ message_length' = Unpack(buf)
            /\ IF MoreToRead(0, Unpack(buf))
               THEN /\ rpc' = "body"
                    /\ UNCHANGED <<rret, raised>>
               ELSE ReadReturn(TRUE, Join(<<>>))
    /\ UNCHANGED <<hvars, link, eof, rgone, wvars, cret, wret>>

\* line 84: recv(4) raises (lines 97-100)
ReadHeaderFail ==
    /\ rpc = "idle"
    /\ sock["r"] # None
    /\ ReadLocals
    /\ message_length' = 0
    /\ \E e \in RecvErrors : ReadRaise(e)
    /\ UNCHANGED <<hvars, netvars, wvars, cret, wret>>

\* lines 88-90 and the loop test: one recv in the loop returns buf
ReadBody(buf) ==
    /\ rpc = "body"
    /\ buf \in RecvBufs(BodyRequest(message_length, data_length))
    /\ buf = <<>> => spins < MaxSpins
    /\ stream' = Drop(stream, Len(buf))
    /\ data_length' = data_length + Len(buf)
    /\ taken' = taken \o buf
    /\ fragments' = Append(fragments, buf)
    /\ spins' = IF buf = <<>> THEN spins + 1 ELSE spins
    /\ IF MoreToRead(data_length + Len(buf), message_length)
       THEN UNCHANGED <<rpc, rret, raised>>
       ELSE ReadReturn(TRUE, Join(Append(fragments, buf)))
    /\ UNCHANGED <<hvars, link, eof, rgone, wvars, message_length, cret, wret>>

\* line 88: recv raises (lines 97-100)
ReadBodyFail ==
    /\ rpc = "body"
    /\ \E e \in RecvErrors : ReadRaise(e)
    /\ UNCHANGED <<hvars, netvars, wvars, fragments, data_length, message_length,
                   spins, taken, cret, wret>>

\* ------------------------------------------------------------ specification
\* every buffer a recv() of the code can return in the current state
Bufs == RecvBufs(4) \cup RecvBufs(BodyRequest(message_length, data_length))

Next ==
    \/ \E out \in {"ok", "refused", "nosock"} : Connect(out) /\ UNCHANGED <<hist, svars>>
    \/ \E o \in Objs, shutOk \in BOOLEAN, closeOk \in BOOLEAN :
          Disconnect(o, shutOk, closeOk) /\ UNCHANGED <<hist, svars>>
    \/ \E p \in Payloads : nwrites < MaxWrites /\ WriteCall(p) /\ UNCHANGED <<hist, svars>>
    \/ \E hi \in {65536} : nwrites < MaxWrites /\ WriteTooLong(hi) /\ UNCHANGED <<hist, svars>>
    \/ \E k \in 1..(MaxLen + 4) : WriteSend(k) /\ UNCHANGED <<hist, svars>>
    \/ WriteSendFail /\ UNCHANGED <<hist, svars>>
    \/ ReadNoSock /\ UNCHANGED <<hist, svars>>
    \/ ReadTimeout /\ UNCHANGED <<hist, svars>>
    \/ \E buf \in Bufs : ReadHeader(buf) /\ UNCHANGED <<hist, svars>>
    \/ ReadHeaderFail /\ UNCHANGED <<hist, svars>>
    \/ \E buf \in Bufs : ReadBody(buf) /\ UNCHANGED <<hist, svars>>
    \/ ReadBodyFail /\ UNCHANGED <<hist, svars>>

Spec == Init /\ [][Next]_vars

\* the life cycle alone: connect, disconnect, and the calls that move no bytes
NextConn ==
    \/ \E out \in {"ok", "refused", "nosock"} : Connect(out) /\ UNCHANGED <<hist, svars>>
    \/ \E o \in Objs, shutOk \in BOOLEAN, closeOk \in BOOLEAN :
          Disconnect(o, shutOk, closeOk) /\ UNCHANGED <<hist, svars>>
    \/ ReadNoSock /\ UNCHANGED <<hist, svars>>
    \/ ReadTimeout /\ UNCHANGED <<hist, svars>>
    \/ ReadHeaderFail /\ UNCHANGED <<hist, svars>>

SpecConn == Init /\ [][NextConn]_vars

\* the state after w.connect() succeeded and the accepted socket was wrapped as r
InitFrame ==
    /\ ServerInit
    /\ sock = [w |-> 1, r |-> 2]
    /\ created = 2
    /\ nShutdown = 0
    /\ nClose = 0
    /\ link = <<1, 2>>
    /\ stream = <<>>
    /\ eof = FALSE
    /\ rgone = FALSE
    /\ wpc = "idle"
    /\ wdata = <<>>
    /\ wsent = 0
    /\ wlength = 0
    /\ rpc = "idle"
    /\ fragments = <<>>
    /\ data_length = 0
    /\ message_length = 0
    /\ spins = 0
    /\ taken = <<>>
    /\ cret = <<TRUE>>
    /\ wret = <<>>
    /\ rret = <<>>
    /\ nwrites = 0
    /\ raised = {}
    /\ wlog = <<>>
    /\ rlog = <<>>
    /\ rseen = 0

\* the traffic on an established connection
NextFrame ==
    \/ \E o \in Objs, shutOk \in BOOLEAN, closeOk \in BOOLEAN :
          Disconnect(o, shutOk, closeOk) /\ UNCHANGED <<hist, svars>>
    \/ \E p \in Payloads : nwrites < MaxWrites /\ WriteCall(p) /\ UNCHANGED <<hist, svars>>
    \/ \E hi \in {65536} : nwrites < MaxWrites /\ WriteTooLong(hi) /\ UNCHANGED <<hist, svars>>
    \/ \E k \in 1..(MaxLen + 4) : WriteSend(k) /\ UNCHANGED <<hist, svars>>
    \/ WriteSendFail /\ UNCHANGED <<hist, svars>>
    \/ ReadNoSock /\ UNCHANGED <<hist, svars>>
    \/ ReadTimeout /\ UNCHANGED <<hist, svars>>
    \/ \E buf \in Bufs : ReadHeader(buf) /\ UNCHANGED <<hist, svars>>
    \/ ReadHeaderFail /\ UNCHANGED <<hist, svars>>
    \/ \E buf \in Bufs : ReadBody(buf) /\ UNCHANGED <<hist, svars>>
    \/ ReadBodyFail /\ UNCHANGED <<hist, svars>>

SpecFrame == InitFrame /\ [][NextFrame]_vars

\* the calls on an established connection, and the connect() calls that fail
\* or are turned away once it is there
NextCalls ==
    \/ NextFrame
    \/ \E out \in {"refused", "nosock"} : Connect(out) /\ UNCHANGED <<hist, svars>>

SpecCalls == InitFrame /\ [][NextCalls]_vars

\* lines 88-90 at the end of the stream, once MaxSpins empty buffers are in
\* fragments: recv() returns b'' again, data_length stays; the model records
\* no more of the empty buffers
ReadSpin ==
    /\ rpc = "body"
    /\ spins = MaxSpins
    /\ <<>> \in RecvBufs(BodyRequest(message_length, data_length))
    /\ rpc' = "spin"
    /\ UNCHANGED <<hvars, netvars, wvars, fragments, data_length, message_length,
                   spins, taken, cret, wret, rret, raised>>

\* line 86 after such a recv(): the loop test
ReadSpinTest ==
    /\ rpc = "spin"
    /\ IF MoreToRead(data_length, message_length)
       THEN rpc' = "body" /\ UNCHANGED <<rret, raised>>
       ELSE ReadReturn(TRUE, Join(fragments))
    /\ UNCHANGED <<hvars, netvars, wvars, fragments, data_length, message_length,
                   spins, taken, cret, wret>>

\* one step of the thread in read() past the prefix
ReadStep ==
    \/ \E buf \in Bufs : ReadBody(buf) /\ UNCHANGED <<hist, svars>>
    \/ ReadSpin /\ UNCHANGED <<hist, svars>>
    \/ ReadSpinTest /\ UNCHANGED <<hist, svars>>

\* the traffic on an established connection with a reader that is scheduled
\* again and again, and whose recv() calls are not cut off at MaxSpins
NextLive ==
    \/ NextFrame
    \/ ReadSpin /\ UNCHANGED <<hist, svars>>
    \/ ReadSpinTest /\ UNCHANGED <<hist, svars>>

SpecLive == InitFrame /\ [][NextLive]_vars /\ WF_vars(ReadStep)

\* ------------------------------------------------------------------ history
\* beside a step of write(): the payload is logged when the call returns True
HWrite ==
    /\ wlog' = IF wpc' = "idle" /\ wret' = <<TRUE>>
               THEN Append(wlog, Drop(wdata', 4)) ELSE wlog
    /\ UNCHANGED <<rlog, rseen, svars>>

\* beside the first step of a read(): how many messages were written before
\* it; the returned tuple is logged if the call returns in this step
HReadBegin ==
    /\ Len(rlog) < MaxReads
    /\ rseen' = Len(wlog)
    /\ rlog' = IF rpc' = "idle" THEN Append(rlog, <<rret'[1], rret'[2], Len(wlog)>>) ELSE rlog
    /\ UNCHANGED <<wlog, svars>>

\* beside a later step of a read()
HReadMore ==
    /\ rlog' = IF rpc' = "idle" THEN Append(rlog, <<rret'[1], rret'[2], rseen>>) ELSE rlog
    /\ UNCHANGED <<wlog, rseen, svars>>

\* the traffic on a healthy connection, with its history
NextHist ==
    \/ \E p \in Payloads : nwrites < HistWrites /\ WriteCall(p) /\ HWrite
    \/ \E k \in 1..(MaxLen + 4) : WriteSend(k) /\ HWrite
    \/ ReadTimeout /\ HReadBegin
    \/ \E buf \in Bufs : ReadHeader(buf) /\ HReadBegin
    \/ \E buf \in Bufs : ReadBody(buf) /\ HReadMore

SpecHist == InitFrame /\ [][NextHist]_vars

\* --------------------------------------------------------------- ServerBase
\* start() and stop() are called one at a time; the accept loops and the
\* callback threads run beside them.  The Socket objects above stay as they
\* are while the server is looked at.
sockvars == <<hvars, netvars, wvars, rvars, cret, wret, rret, raised, hist>>

Listeners == 1..MaxStarts
Conns == 1..MaxConns
TryBody == {"select", "accept", "dispatch"}      \* lines 196-201

\* line 227: the guard of start()
\* a start() without the guard of line 227
AlreadyListening_Never == FALSE
AlreadyListening == listener # None

\* start(callback, port, address, blocking).  out is what the platform does:
\*   "nosock"   socket() raises on line 230: nothing was assigned
\*   "bindfail" bind() or listen() raises (lines 231-232): line 230 has
\*              assigned the new socket and nothing clears it
\*   "ok"       lines 230-240 run through; the thread in __listen exists
\* With blocking the loop runs in the caller; if that is the main thread, the
\* loop is the one a KeyboardInterrupt reaches.
Start(out, blocking) ==
    /\ cpc = "idle"
    /\ IF AlreadyListening
       THEN /\ sret' = <<"raised">>
            /\ UNCHANGED <<listener, running, nstarts, lsock, loop, mainloop, phase>>
       ELSE IF out = "nosock"
       THEN /\ sret' = <<"raised">>
            /\ UNCHANGED <<listener, running, nstarts, lsock, loop, mainloop, phase>>
       ELSE /\ nstarts < MaxStarts
            /\ nstarts' = nstarts + 1
            /\ listener' = nstarts + 1
            /\ IF out = "bindfail"
               THEN /\ lsock' = [lsock EXCEPT ![nstarts + 1] = "unbound"]
                    /\ sret' = <<"raised">>
                    /\ UNCHANGED <<running, loop, mainloop, phase>>
               ELSE /\ lsock' = [lsock EXCEPT ![nstarts + 1] = "listening"]
                    /\ running' = TRUE
                    /\ loop' = [loop EXCEPT ![nstarts + 1] = "while"]
                    /\ mainloop' = IF blocking /\ (mainloop = 0 \/ loop[mainloop] = "done")
                                   THEN nstarts + 1 ELSE mainloop
                    /\ sret' = <<"returned">>
                    /\ phase' = "Listening"
    /\ UNCHANGED <<held, naccepted, handlers, invoked, cpc, logged, sockvars>>

\* line 246 and the sleep of line 248
StopBegin ==
    /\ cpc = "idle"
    /\ running' = FALSE
    /\ cpc' = "sleep"
    /\ UNCHANGED <<listener, nstarts, lsock, loop, held, mainloop, naccepted,
                   handlers, invoked, sret, phase, logged, sockvars>>

\* line 256: the listener is cleared whatever shutdown() and close() did
\* a stop() that forgets the listener only when close() succeeded
ListenerAfterStop_OnSuccess(l, shutOk, closeOk) == IF closeOk THEN None ELSE l
ListenerAfterStop(l, shutOk, closeOk) == None

\* lines 250-256.  Without a listener shutdown() and close() raise on None and
\* both are suppressed; close() releases the descriptor whether or not it
\* reports an error
StopEnd(shutOk, closeOk) ==
    /\ cpc = "sleep"
    /\ cpc' = "idle"
    /\ lsock' = IF listener = None THEN lsock ELSE [lsock EXCEPT ![listener] = "closed"]
    /\ listener' = ListenerAfterStop(listener, shutOk, closeOk)
    /\ phase' = "Idle"
    /\ UNCHANGED <<running, nstarts, loop, held, mainloop, naccepted,
                   handlers, invoked, sret, logged, sockvars>>

\* line 194: the loop test
LoopContinues(r) == r

LoopCheck(l) ==
    /\ loop[l] = "while"
    /\ loop' = [loop EXCEPT ![l] = IF LoopContinues(running) THEN "select" ELSE "done"]
    /\ UNCHANGED <<listener, running, nstarts, lsock, held, mainloop, naccepted,
                   handlers, invoked, cpc, sret, phase, logged, sockvars>>

\* line 196: select() on the current listener returns; ready: a connection is
\* pending.  On None or on a closed socket select() raises (LoopFail)
LoopSelect(l, ready) ==
    /\ loop[l] = "select"
    /\ listener # None
    /\ lsock[listener] # "closed"
    /\ ready => (lsock[listener] = "listening" /\ naccepted < MaxConns)
    /\ loop' = [loop EXCEPT ![l] = IF ready THEN "accept" ELSE "while"]
    /\ UNCHANGED <<listener, running, nstarts, lsock, held, mainloop, naccepted,
                   handlers, invoked, cpc, sret, phase, logged, sockvars>>

\* line 197: accept() on the current listener returns the next connection
LoopAccept(l) ==
    /\ loop[l] = "accept"
    /\ listener # None
    /\ lsock[listener] = "listening"
    /\ naccepted < MaxConns
    /\ naccepted' = naccepted + 1
    /\ held' = [held EXCEPT ![l] = naccepted + 1]
    /\ loop' = [loop EXCEPT ![l] = "dispatch"]
    /\ UNCHANGED <<listener, running, nstarts, lsock, mainloop,
                   handlers, invoked, cpc, sret, phase, logged, sockvars>>

\* line 199: the callback gets Socket(sock), sock being what accept() returned
\* a loop that hands every callback the first connection
HandlerArg_First(c) == 1
HandlerArg(c) == c

\* lines 199-201: a daemon thread is started on the callback; the loop goes on
LoopDispatch(l) ==
    /\ loop[l] = "dispatch"
    /\ handlers' = handlers \cup {HandlerArg(held[l])}
    /\ invoked' = [invoked EXCEPT ![HandlerArg(held[l])] = @ + 1]
    /\ held' = [held EXCEPT ![l] = 0]
    /\ loop' = [loop EXCEPT ![l] = "while"]
    /\ UNCHANGED <<listener, running, nstarts, lsock, mainloop, naccepted,
                   cpc, sret, phase, logged, sockvars>>

\* lines 206-208: after the except clause the loop is back at its test
\* a loop that an error ends
AfterError_Exit(r) == "done"
AfterError(r) == "while"

\* lines 196-201 raise an Exception: select() or accept() fails (it must on a
\* listener that is None or closed), or the thread cannot be started; the
\* error is printed if running
LoopFail(l) ==
    /\ loop[l] \in TryBody
    /\ loop' = [loop EXCEPT ![l] = AfterError(running)]
    /\ held' = [held EXCEPT ![l] = 0]
    /\ logged' = IF running THEN Min(logged + 1, MaxLogged) ELSE logged
    /\ UNCHANGED <<listener, running, nstarts, lsock, mainloop, naccepted,
                   handlers, invoked, cpc, sret, phase, sockvars>>

\* lines 203-204: KeyboardInterrupt reaches the loop of the main thread
LoopInterrupt(l) ==
    /\ l = mainloop
    /\ loop[l] \in TryBody
    /\ running' = FALSE
    /\ loop' = [loop EXCEPT ![l] = "while"]
    /\ held' = [held EXCEPT ![l] = 0]
    /\ UNCHANGED <<listener, nstarts, lsock, mainloop, naccepted,
                   handlers, invoked, cpc, sret, phase, logged, sockvars>>

\* the callback of connection c returns
HandlerDone(c) ==
    /\ c \in handlers
    /\ handlers' = handlers \ {c}
    /\ UNCHANGED <<listener, running, nstarts, lsock, loop, held, mainloop, naccepted,
                   invoked, cpc, sret, phase, logged, sockvars>>

\* one step of the thread of loop l
LoopStep(l) ==
    \/ LoopCheck(l)
    \/ \E ready \in BOOLEAN : LoopSelect(l, ready)
    \/ LoopAccept(l)
    \/ LoopDispatch(l)
    \/ LoopFail(l)

NextServ ==
    \/ \E out \in {"ok", "bindfail", "nosock"}, blocking \in BOOLEAN : Start(out, blocking)
    \/ StopBegin
    \/ \E shutOk \in BOOLEAN, closeOk \in BOOLEAN : StopEnd(shutOk, closeOk)
    \/ \E l \in Listeners : LoopCheck(l)
    \/ \E l \in Listeners, ready \in BOOLEAN : LoopSelect(l, ready)
    \/ \E l \in Listeners : LoopAccept(l)
    \/ \E l \in Listeners : LoopDispatch(l)
    \/ \E l \in Listeners : LoopFail(l)
    \/ \E l \in Listeners : LoopInterrupt(l)
    \/ \E c \in Conns : HandlerDone(c)

SpecServ == Init /\ [][NextServ]_vars

\* the threads of the accept loops are scheduled again and again
SpecServFair == SpecServ /\ \A l \in Listeners : WF_vars(LoopStep(l))

\* ------------------------------------------------------------------- claims
ConnectOutcomes == {"ok", "refused", "nosock"}
ConnectStep == \E out \in ConnectOutcomes : Connect(out)
DisconnectStep(o) == \E shutOk \in BOOLEAN, closeOk \in BOOLEAN : Disconnect(o, shutOk, closeOk)
ShortHeaderStep == \E buf \in Bufs : Len(buf) # 4 /\ ReadHeader(buf)

\* the payloads of the reads that returned True, in the order of the calls
RECURSIVE ReadPayloads(_)
ReadPayloads(log) ==
    IF log = <<>> THEN <<>>
    ELSE IF Head(log)[1] THEN <<Head(log)[2]>> \o ReadPayloads(Tail(log))
    ELSE ReadPayloads(Tail(log))

\* C1: on a healthy connection, when write(p) has returned True and the other
\* end then calls read() for the first time, that read returns (True, p)
C1_RoundTrip ==
    (Len(rlog) >= 1 /\ rlog[1][3] >= 1) => (rlog[1][1] /\ rlog[1][2] = wlog[1])

\* C2: when write() has returned True, it has handed all 4 + L bytes of the
\* prefixed message to send()
C2_WriteSendsAll ==
    (wpc = "idle" /\ wret = <<TRUE>>) => (Len(wdata) = 4 + wlength /\ wsent = Len(wdata))

\* C3: on a healthy connection, once every write has returned True, the
\* payloads returned by the successful reads are, in order, the first payloads
\* written (no read returned the error sentinel)
C3_InOrder ==
    (wpc = "idle" /\ \A i \in 1..Len(rlog) : rlog[i][1] \/ rlog[i][2] # SOCK_ERROR)
        => IsPrefix(ReadPayloads(rlog), wlog)

\* C4: a read() that has returned gave either (True, the L bytes that followed
\* the prefix on the stream), L being the decoded prefix, or (False, sentinel);
\* never a payload of fewer than L bytes
C4_WholePayload ==
    (rpc = "idle" /\ rret # <<>>) =>
        IF rret[1]
        THEN Len(rret[2]) = message_length /\ rret[2] = taken
        ELSE rret[2] \in {SOCK_ERROR, SOCK_TIMEOUT}

C4_Witness ==
    rpc = "idle" /\ rret = <<TRUE, <<1, 2>>>> /\ Len(fragments) = 2

\* C5: a read() on a connected object whose stream does not become readable
\* within the timeout returns (False, SOCK_TIMEOUT); it takes nothing off the
\* stream, keeps the socket and does not retry
C5_Timeout ==
    [][ReadTimeout => /\ rret' = <<FALSE, SOCK_TIMEOUT>>
                      /\ rpc' = "idle"
                      /\ UNCHANGED <<sock, stream, nShutdown, nClose>>]_vars

C5_Witness ==
    sock["r"] # None /\ ~Readable /\ rpc = "idle" /\ rret = <<FALSE, SOCK_TIMEOUT>>

\* C6 as stated: a read() on an object without a socket returns
\* (False, SOCK_ERROR)
C6_NotConnectedIsError ==
    [][ReadNoSock => rret' = <<FALSE, SOCK_ERROR>>]_vars

\* C6: a read() on an object without a socket returns (False, SOCK_TIMEOUT),
\* the tuple an expired wait returns, and leaves the object as it is
C6_NotConnectedIsTimeout ==
    [][ReadNoSock => /\ rret' = <<FALSE, SOCK_TIMEOUT>>
                     /\ rret' = <<FALSE, TimedOutData>>
                     /\ rpc' = "idle"
                     /\ UNCHANGED <<sock, stream>>]_vars

C6_Witness ==
    sock["r"] = None /\ rpc = "idle" /\ rret = <<FALSE, SOCK_TIMEOUT>>

\* C7: a read() whose prefix recv() gives fewer than 4 bytes, or whose socket
\* layer raises, returns (False, SOCK_ERROR)
C7_HeaderError ==
    [][(ShortHeaderStep \/ ReadHeaderFail \/ ReadBodyFail)
          => (rret' = <<FALSE, SOCK_ERROR>> /\ rpc' = "idle")]_vars

C7_Witness ==
    /\ rpc = "idle" /\ rret = <<FALSE, SOCK_ERROR>>
    /\ sock["r"] # None
    /\ wpc = "idle" /\ wsent - Len(stream) \in 1..3

\* C8: a connect() that returns False on an object without a socket leaves the
\* object without a socket, so that a later connect() is not turned away
C8_FailedConnectStaysDisconnected ==
    [][(ConnectStep /\ sock["w"] = None /\ cret' = <<FALSE>>) => sock'["w"] = None]_vars

\* C9: a connect() on an object that holds a socket returns False and leaves
\* the object, its socket and the connection as they are
C9_ConnectWhenConnected ==
    [][(ConnectStep /\ sock["w"] # None)
          => (cret' = <<FALSE>> /\ UNCHANGED <<hvars, netvars>>)]_vars

C9_Witness ==
    cret = <<FALSE>> /\ link # <<>> /\ sock["w"] = link[1] /\ ~eof /\ ~rgone

\* C10: disconnect() always leaves the object without a socket, whatever
\* shutdown() and close() do; on an object without a socket it does nothing;
\* connect() may be called again afterwards
C10_Disconnect ==
    [][\A o \in Objs : DisconnectStep(o) =>
          /\ sock'[o] = None
          /\ sock[o] = None => UNCHANGED <<hvars, netvars>>]_vars

C10_Witness ==
    nClose >= 1 /\ cret = <<TRUE>> /\ sock["w"] # None /\ link # <<>> /\ sock["w"] = link[1]
\* C11: no exception propagates out of connect(), read(), write() or
\* disconnect(), whether the object owns a socket or not and whatever the
\* socket operations raise, a payload too long for the prefix included: the
\* failure is in the returned value
C11_NoExceptionEscapes ==
    raised = {}

C11_Witness ==
    /\ wpc = "idle" /\ wret = <<FALSE>> /\ nwrites = 1
    /\ link # <<>> /\ sock["w"] = link[1] /\ wdata = <<>>

StartStep == \E out \in {"ok", "bindfail", "nosock"}, blocking \in BOOLEAN : Start(out, blocking)
StopEndStep == \E shutOk \in BOOLEAN, closeOk \in BOOLEAN : StopEnd(shutOk, closeOk)
ActiveLoops == { l \in Listeners : loop[l] \notin {"none", "done"} }

\* C12: start() on a server that already has a listener raises and changes
\* nothing: the listener is not replaced or closed, running keeps its value,
\* no second accept loop is spawned
C12_StartWhenListening ==
    [][(StartStep /\ listener # None)
          => /\ sret' = <<"raised">>
             /\ UNCHANGED <<listener, lsock, running, loop, nstarts>>]_vars

C12_Witness ==
    /\ sret = <<"raised">> /\ nstarts = 1 /\ listener = 1
    /\ lsock[1] = "listening" /\ running /\ loop[1] # "done"

\* C13: when stop() completes, the listening socket is closed and the
\* listener is absent, whatever shutdown() and close() did, running is false,
\* and the next start() is not turned away
C13_StopLeavesIdle ==
    [][StopEndStep
          => /\ listener' = None
             /\ ~running'
             /\ cpc' = "idle"
             /\ listener # None => lsock'[listener] = "closed"]_vars

C13_Witness ==
    /\ nstarts = 2 /\ lsock[1] = "closed" /\ listener = 2
    /\ lsock[2] = "listening" /\ sret = <<"returned">> /\ running

\* C14: every accepted connection the loop dispatches gets one callback
\* thread, started with the Socket that wraps that connection and no other;
\* no other step starts a callback; the loop goes on to its test without
\* waiting for any callback to return
C14_OneHandlerEach ==
    [][/\ \A l \in Listeners : LoopDispatch(l) =>
              /\ held[l] \in 1..naccepted
              /\ invoked[held[l]] = 0
              /\ invoked' = [invoked EXCEPT ![held[l]] = 1]
              /\ handlers' = handlers \cup {held[l]}
              /\ loop'[l] = "while"
       /\ (\A l \in Listeners : ~LoopDispatch(l)) => invoked' = invoked]_vars

C14_Witness ==
    /\ handlers = {1, 2} /\ invoked[1] = 1 /\ invoked[2] = 1
    /\ running /\ ActiveLoops # {}

\* C15: the server has a listener exactly when a start() has succeeded and
\* the stop() that follows it has not completed
C15_ListenerIffListening ==
    (listener # None) <=> (phase = "Listening")

\* C17: an Exception raised by select(), by accept() or while the callback
\* thread is started leaves the loop at its test; at the test the loop goes on
\* if running is true and leaves, accepting nothing more, if it is false
C17_ErrorKeepsLoop ==
    [][\A l \in Listeners :
          /\ LoopFail(l) => loop'[l] = "while"
          /\ LoopCheck(l) => /\ loop'[l] = IF running THEN "select" ELSE "done"
                             /\ naccepted' = naccepted]_vars

C17_Witness ==
    /\ logged >= 1 /\ nstarts = 1 /\ running
    /\ naccepted = 1 /\ loop[1] = "dispatch" /\ held[1] = 1

\* C19: a loop accepts only from the listener of the start() that spawned it:
\* after stop() and a new start(), the loop of the earlier start() takes no
\* connection from the new listener
C19_OneLoopPerListener ==
    [][\A l \in Listeners : LoopAccept(l) => listener = l]_vars

\* C20: a start() that raises on a server without a listener leaves it
\* without one, and not running
C20_FailedStartStaysIdle ==
    [][(StartStep /\ listener = None /\ sret' = <<"raised">>)
          => (listener' = None /\ ~running')]_vars

\* C16: once running is false, every accept loop that is still in its loop
\* eventually leaves it
C16_LoopExits ==
    \A l \in Listeners : (l \in ActiveLoops /\ ~running) ~> (loop[l] = "done")

\* C18: a read() that is past the prefix when the peer has closed the
\* connection eventually returns
C18_ReadReturns ==
    (rpc = "body" /\ eof) ~> (rpc = "idle")

====
